---------------------------- MODULE Spec2Model ----------------------------
(***************************************************************************)
(* naduke: read a text file's leading bytes, ask a local model for a name, *)
(* sanitize the answer and rename the file, keeping its extension.         *)
(*                                                                         *)
(* Go strings are byte strings: here a string is a sequence of bytes       *)
(* (0..255).  The library calls the program makes (strings.TrimSpace,      *)
(* strings.ToLower, regexp.ReplaceAllString, utf8, filepath) are modelled  *)
(* by what they do on bytes.                                               *)
(***************************************************************************)
EXTENDS Integers, Sequences, FiniteSets, TLC

VARIABLES
    call,      \* one call of a library function: its input and its result
    files,     \* main: the FILE... arguments, in order
    dryRun,    \* main: opts.DryRun
    fs,        \* the filesystem: absolute path -> content of the file there
    fs0,       \* the filesystem when the run started
    where,     \* for each file of fs0, the path it is at now (or Lost)
    idx,       \* main: index of the file the loop is at
    pc,        \* main: position in the loop body
    sample,    \* main: result of ReadSample
    text,      \* main: result of EnsureTextSample
    rawName,   \* main: result of GenerateName
    newName,   \* main: result of SanitizeName
    stdout,    \* the "old -> new" lines printed, in order
    err,       \* the error that ended the run, or NoError
    trace      \* what was done to which file, in order: read, request, move

mainVars == <<files, dryRun, fs, fs0, where, idx, pc, sample, text, rawName,
              newName, stdout, err, trace>>
vars == <<call, files, dryRun, fs, fs0, where, idx, pc, sample, text, rawName,
          newName, stdout, err, trace>>

-----------------------------------------------------------------------------
(* Bounds of the model                                                     *)

MaxLen == 3        \* longest enumerated raw model output, in bytes
MaxFiles == 3      \* longest batch of FILE arguments

-----------------------------------------------------------------------------
(* Byte strings                                                            *)

\* the printable ASCII characters 32..95 and 97..126, in byte order
Printable ==
    " !\"#$%&'()*+,-./0123456789:;<=>?@ABCDEFGHIJKLMNOPQRSTUVWXYZ[\\]^_"
PrintableLower == "abcdefghijklmnopqrstuvwxyz{|}~"

\* the byte of a one-character string
Code(c) ==
    IF c = "\n" THEN 10
    ELSE IF c = "\r" THEN 13
    ELSE IF c = "\t" THEN 9
    ELSE IF \E i \in 1..Len(Printable) : SubSeq(Printable, i, i) = c
    THEN 31 + (CHOOSE i \in 1..Len(Printable) : SubSeq(Printable, i, i) = c)
    ELSE 96 + (CHOOSE i \in 1..Len(PrintableLower) :
                   SubSeq(PrintableLower, i, i) = c)

\* the bytes of an ASCII string literal
B(s) == [i \in 1..Len(s) |-> Code(SubSeq(s, i, i))]

Repeat(b, n) == [i \in 1..n |-> b]

\* s[from:to] of Go, 0-based, to exclusive
Slice(s, from, to) == SubSeq(s, from + 1, to)

Min(a, b) == IF a < b THEN a ELSE b
Max(a, b) == IF a < b THEN b ELSE a

-----------------------------------------------------------------------------
(* unicode/utf8                                                            *)

RuneError == 65533
RuneSelf == 128
UTFMax == 4

IsCont(b) == 128 <= b /\ b <= 191

\* the length a first byte announces (0: not a first byte) and the range
\* its second byte must lie in (utf8.first, utf8.acceptRanges)
FirstSize(b) ==
    CASE b < 128 -> 1
      [] 194 <= b /\ b <= 223 -> 2
      [] 224 <= b /\ b <= 239 -> 3
      [] 240 <= b /\ b <= 244 -> 4
      [] OTHER -> 0

AcceptLo(b) == CASE b = 224 -> 160 [] b = 240 -> 144 [] OTHER -> 128
AcceptHi(b) == CASE b = 237 -> 159 [] b = 244 -> 143 [] OTHER -> 191

\* utf8.DecodeRuneInString: the first rune of s and its width in bytes
DecodeRune(s) ==
    IF Len(s) = 0 THEN [r |-> RuneError, w |-> 0]
    ELSE LET b0 == s[1]
             sz == FirstSize(b0)
             bad == [r |-> RuneError, w |-> 1]
         IN  IF sz = 1 THEN [r |-> b0, w |-> 1]
             ELSE IF sz = 0 \/ Len(s) < sz THEN bad
             ELSE IF s[2] < AcceptLo(b0) \/ AcceptHi(b0) < s[2] THEN bad
             ELSE IF sz = 2
                  THEN [r |-> (b0 % 32) * 64 + (s[2] % 64), w |-> 2]
             ELSE IF ~IsCont(s[3]) THEN bad
             ELSE IF sz = 3
                  THEN [r |-> (b0 % 16) * 4096 + (s[2] % 64) * 64 + (s[3] % 64),
                        w |-> 3]
             ELSE IF ~IsCont(s[4]) THEN bad
             ELSE [r |-> (b0 % 8) * 262144 + (s[2] % 64) * 4096
                         + (s[3] % 64) * 64 + (s[4] % 64),
                   w |-> 4]

\* utf8.RuneStart
RuneStart(b) == ~IsCont(b)

\* utf8.DecodeLastRuneInString: the last rune of s and its width
DecodeLastRune(s) ==
    LET end == Len(s) IN
    IF end = 0 THEN [r |-> RuneError, w |-> 0]
    ELSE IF s[end] < RuneSelf THEN [r |-> s[end], w |-> 1]
    ELSE LET lim == Max(end - UTFMax, 0)
             \* 0-based positions the backwards scan stops at
             stops == {k \in lim..(end - 2) : RuneStart(s[k + 1])}
             found == IF stops = {} THEN lim - 1
                      ELSE CHOOSE k \in stops : \A j \in stops : j <= k
             start == Max(found, 0)
             d == DecodeRune(Slice(s, start, end))
         IN  IF start + d.w # end THEN [r |-> RuneError, w |-> 1] ELSE d

\* utf8.AppendRune / strings.Builder.WriteRune
EncodeRune(r) ==
    IF r < 128 THEN <<r>>
    ELSE IF r < 2048 THEN <<192 + (r \div 64), 128 + (r % 64)>>
    ELSE IF r > 1114111 \/ (55296 <= r /\ r <= 57343) THEN <<239, 191, 189>>
    ELSE IF r < 65536
         THEN <<224 + (r \div 4096), 128 + ((r \div 64) % 64), 128 + (r % 64)>>
    ELSE <<240 + (r \div 262144), 128 + ((r \div 4096) % 64),
           128 + ((r \div 64) % 64), 128 + (r % 64)>>

\* the runes a for-range loop yields: an invalid byte is RuneError
RECURSIVE Runes(_)
Runes(s) ==
    IF Len(s) = 0 THEN <<>>
    ELSE LET d == DecodeRune(s)
         IN  <<d.r>> \o Runes(Slice(s, d.w, Len(s)))

\* utf8.ValidString
RECURSIVE ValidString(_)
ValidString(s) ==
    IF Len(s) = 0 THEN TRUE
    ELSE LET d == DecodeRune(s)
         IN  IF d.r = RuneError /\ d.w = 1 THEN FALSE
             ELSE ValidString(Slice(s, d.w, Len(s)))

-----------------------------------------------------------------------------
(* unicode, strings, regexp                                                *)

\* unicode.IsSpace
IsSpace(r) ==
    \/ r \in {9, 10, 11, 12, 13, 32, 133, 160}
    \/ r \in {5760, 8232, 8233, 8239, 8287, 12288}
    \/ (8192 <= r /\ r <= 8202)

\* unicode.ToLower, tabulated for ASCII, Latin-1 and the two letters outside
\* Latin-1 that lowercase into ASCII (U+0130, U+212A); the model's inputs
\* hold no other cased rune
UnicodeToLower(r) ==
    CASE 65 <= r /\ r <= 90 -> r + 32
      [] 192 <= r /\ r <= 222 /\ r # 215 -> r + 32
      [] r = 304 -> 105
      [] r = 8490 -> 107
      [] OTHER -> r

\* strings.TrimLeftFunc(s, unicode.IsSpace)
RECURSIVE TrimLeftSpace(_)
TrimLeftSpace(s) ==
    IF Len(s) = 0 THEN s
    ELSE LET d == DecodeRune(s)
         IN  IF IsSpace(d.r) THEN TrimLeftSpace(Slice(s, d.w, Len(s))) ELSE s

\* strings.TrimRightFunc(s, unicode.IsSpace)
RECURSIVE TrimRightSpace(_)
TrimRightSpace(s) ==
    IF Len(s) = 0 THEN s
    ELSE LET d == DecodeLastRune(s)
         IN  IF IsSpace(d.r) THEN TrimRightSpace(Slice(s, 0, Len(s) - d.w))
             ELSE s

\* strings.TrimSpace
TrimSpace(s) == TrimRightSpace(TrimLeftSpace(s))

\* strings.IndexByte, 0-based, -1 when absent
IndexByte(s, b) ==
    IF \E i \in 1..Len(s) : s[i] = b
    THEN (CHOOSE i \in 1..Len(s) : s[i] = b /\ \A j \in 1..(i - 1) : s[j] # b) - 1
    ELSE -1

\* strings.Map(unicode.ToLower, s): every rune re-encoded, an invalid byte
\* becoming U+FFFD
RECURSIVE MapToLower(_)
MapToLower(s) ==
    IF Len(s) = 0 THEN <<>>
    ELSE LET d == DecodeRune(s)
         IN  EncodeRune(UnicodeToLower(d.r)) \o MapToLower(Slice(s, d.w, Len(s)))

\* strings.ToLower
ToLower(s) ==
    IF \A i \in 1..Len(s) : s[i] < RuneSelf
    THEN [i \in 1..Len(s) |-> IF 65 <= s[i] /\ s[i] <= 90 THEN s[i] + 32 ELSE s[i]]
    ELSE MapToLower(s)

\* the bytes the class [a-z0-9_] holds
NameBytes == (97..122) \cup (48..57) \cup {95}

\* invalidChars.ReplaceAllString(s, "_") for invalidChars = [^a-z0-9_]:
\* the regexp steps rune by rune, and every rune outside the class is one match
RECURSIVE ReplaceInvalid(_)
ReplaceInvalid(s) ==
    IF Len(s) = 0 THEN <<>>
    ELSE LET d == DecodeRune(s)
         IN  (IF d.r \in NameBytes THEN <<d.r>> ELSE <<95>>)
             \o ReplaceInvalid(Slice(s, d.w, Len(s)))

\* strings.Trim(s, "_")
RECURSIVE TrimUnderscore(_)
TrimUnderscore(s) ==
    IF Len(s) = 0 THEN s
    ELSE IF s[1] = 95 THEN TrimUnderscore(Tail(s))
    ELSE IF s[Len(s)] = 95 THEN TrimUnderscore(Slice(s, 0, Len(s) - 1))
    ELSE s

-----------------------------------------------------------------------------
(* naduke.SanitizeName                                                     *)

MaxNameLen == 30

FallbackName == B("file")

\* SanitizeName without its strings.Trim(name, "_")
SanitizeName_NoTrim(raw) ==
    LET trimmed == TrimSpace(raw)
        nl == IndexByte(trimmed, 10)
        line == IF nl >= 0 THEN Slice(trimmed, 0, nl) ELSE trimmed
        replaced == ReplaceInvalid(ToLower(line))
        cut == IF Len(replaced) > MaxNameLen
               THEN Slice(replaced, 0, MaxNameLen) ELSE replaced
    IN  IF cut = <<>> THEN FallbackName ELSE cut

\* SanitizeName trimming the underscores before it truncates
SanitizeName_TrimBeforeCut(raw) ==
    LET trimmed == TrimSpace(raw)
        nl == IndexByte(trimmed, 10)
        line == IF nl >= 0 THEN Slice(trimmed, 0, nl) ELSE trimmed
        name == TrimUnderscore(ReplaceInvalid(ToLower(line)))
        cut == IF Len(name) > MaxNameLen THEN Slice(name, 0, MaxNameLen) ELSE name
    IN  IF cut = <<>> THEN FallbackName ELSE cut

\* SanitizeName replacing the invalid characters before it lowercases
SanitizeName_ReplaceBeforeLower(raw) ==
    LET trimmed == TrimSpace(raw)
        nl == IndexByte(trimmed, 10)
        line == IF nl >= 0 THEN Slice(trimmed, 0, nl) ELSE trimmed
        replaced == ToLower(ReplaceInvalid(line))
        cut == IF Len(replaced) > MaxNameLen
               THEN Slice(replaced, 0, MaxNameLen) ELSE replaced
        name == TrimUnderscore(cut)
    IN  IF name = <<>> THEN FallbackName ELSE name

SanitizeName(raw) ==
    LET trimmed == TrimSpace(raw)
        nl == IndexByte(trimmed, 10)
        line == IF nl >= 0 THEN Slice(trimmed, 0, nl) ELSE trimmed
        lower == ToLower(line)
        replaced == ReplaceInvalid(lower)
        cut == IF Len(replaced) > MaxNameLen
               THEN Slice(replaced, 0, MaxNameLen) ELSE replaced
        name == TrimUnderscore(cut)
    IN  IF name = <<>> THEN FallbackName ELSE name

-----------------------------------------------------------------------------
(* path/filepath, on a system whose separator is '/'                       *)

Separator == 47
Dot == <<46>>
DotDot == <<46, 46>>

\* the working directory of the process
Cwd == B("/w")

\* the elements of a path between its separators, empty ones included
RECURSIVE SplitPath(_)
SplitPath(p) ==
    LET i == IndexByte(p, Separator)
    IN  IF i < 0 THEN <<p>>
        ELSE <<Slice(p, 0, i)>> \o SplitPath(Slice(p, i + 1, Len(p)))

\* filepath.Clean's pass over the elements: "" and "." are dropped, ".."
\* removes the element before it, or stays when there is none to remove
\* (and is dropped at the root)
RECURSIVE CleanElems(_, _, _)
CleanElems(elems, kept, rooted) ==
    IF elems = <<>> THEN kept
    ELSE LET el == Head(elems)
             rest == Tail(elems)
         IN  IF el = <<>> \/ el = Dot THEN CleanElems(rest, kept, rooted)
             ELSE IF el = DotDot
                  THEN IF kept # <<>> /\ kept[Len(kept)] # DotDot
                       THEN CleanElems(rest, SubSeq(kept, 1, Len(kept) - 1), rooted)
                       ELSE IF rooted THEN CleanElems(rest, kept, rooted)
                       ELSE CleanElems(rest, Append(kept, el), rooted)
             ELSE CleanElems(rest, Append(kept, el), rooted)

RECURSIVE JoinElems(_)
JoinElems(elems) ==
    IF elems = <<>> THEN <<>>
    ELSE IF Len(elems) = 1 THEN elems[1]
    ELSE elems[1] \o <<Separator>> \o JoinElems(Tail(elems))

\* filepath.IsAbs
IsAbs(p) == Len(p) > 0 /\ p[1] = Separator

\* filepath.Clean
Clean(p) ==
    IF p = <<>> THEN Dot
    ELSE LET rooted == IsAbs(p)
             body == JoinElems(CleanElems(SplitPath(p), <<>>, rooted))
         IN  IF rooted THEN <<Separator>> \o body
             ELSE IF body = <<>> THEN Dot ELSE body

\* 0-based index of the last separator of p, -1 when it has none
LastSeparator(p) ==
    LET at == {i \in 1..Len(p) : p[i] = Separator}
    IN  IF at = {} THEN -1 ELSE (CHOOSE i \in at : \A j \in at : j <= i) - 1

\* filepath.Dir
Dir(p) == Clean(Slice(p, 0, LastSeparator(p) + 1))

\* filepath.Ext: from the last '.' of the last element on, "" without one
Ext(p) ==
    LET from == LastSeparator(p) + 2
        dots == {i \in from..Len(p) : p[i] = 46}
    IN  IF dots = {} THEN <<>>
        ELSE SubSeq(p, CHOOSE i \in dots : \A j \in dots : j <= i, Len(p))

\* filepath.Join of two elements
Join(a, b) ==
    IF a = <<>> /\ b = <<>> THEN <<>>
    ELSE IF a = <<>> THEN Clean(b)
    ELSE IF b = <<>> THEN Clean(a)
    ELSE Clean(a \o <<Separator>> \o b)

\* filepath.Abs
Abs(p) == IF IsAbs(p) THEN Clean(p) ELSE Join(Cwd, p)

-----------------------------------------------------------------------------
(* Values for "nothing"                                                    *)

NoError == [kind |-> "none", args |-> <<>>]
NoString == <<>>

-----------------------------------------------------------------------------
(* File contents.  A content is a run of pad letters 'a' followed by the   *)
(* bytes of tail, so that a file longer than the 8 KiB read buffer is a    *)
(* small value.                                                            *)

Txt(pad, tail) == [pad |-> pad, tail |-> tail]
EmptyText == Txt(0, <<>>)

TextLen(t) == t.pad + Len(t.tail)

\* t[:n]
TextTake(t, n) ==
    IF n <= t.pad THEN Txt(n, <<>>) ELSE Txt(t.pad, SubSeq(t.tail, 1, n - t.pad))

TextIsPrefix(t, u) == TextLen(t) <= TextLen(u) /\ TextTake(u, TextLen(t)) = t

\* strings.ContainsRune(t, '\x00')
TextHasNul(t) == \E i \in 1..Len(t.tail) : t.tail[i] = 0

\* utf8.ValidString(t): the letters of the run are runes of their own
TextValid(t) == ValidString(t.tail)

\* t ends with the first bytes of a multi-byte rune whose last bytes are cut
TextEndsCut(t) ==
    \E k \in 1..Min(3, Len(t.tail)) :
        LET from == Len(t.tail) - k + 1
        IN  /\ FirstSize(t.tail[from]) > k
            /\ \A j \in (from + 1)..Len(t.tail) : IsCont(t.tail[j])

-----------------------------------------------------------------------------
(* The filesystem: absolute cleaned path -> what is there                  *)

File(content) == [kind |-> "file", data |-> content]
Directory == [kind |-> "dir", data |-> EmptyText]

\* errors are the fmt.Errorf / errors.New calls: the message's constant text
\* and the values formatted into it
Error(kind, args) == [kind |-> kind, args |-> args]

\* os.Stat(p) returns a nil error
StatOk(fsys, p) == Abs(p) \in DOMAIN fsys

-----------------------------------------------------------------------------
(* naduke.ReadSample, naduke.EnsureTextSample                              *)

readBytes == 8 * 1024

\* f.Read(buf) on a regular file at offset 0: the first len(buf) bytes
FileRead(content, n) == TextTake(content, Min(TextLen(content), n))

ReadSample(fsys, path) ==
    IF ~StatOk(fsys, path)
    THEN [sample |-> EmptyText, err |-> Error("open file", <<path>>)]
    ELSE IF fsys[Abs(path)].kind = "dir"
    THEN [sample |-> EmptyText, err |-> Error("read file", <<path>>)]
    ELSE [sample |-> FileRead(fsys[Abs(path)].data, readBytes), err |-> NoError]

\* EnsureTextSample with the UTF-8 check made before the NUL check
EnsureTextSample_UTF8First(smp, path) ==
    IF smp = EmptyText THEN [text |-> EmptyText, err |-> NoError]
    ELSE IF ~TextValid(smp)
    THEN [text |-> EmptyText, err |-> Error("is not valid UTF-8 text", <<path>>)]
    ELSE IF TextHasNul(smp)
    THEN [text |-> EmptyText,
          err |-> Error("does not look like a text file (NUL byte found)", <<path>>)]
    ELSE [text |-> smp, err |-> NoError]

\* EnsureTextSample(sample, path)
EnsureTextSample(smp, path) ==
    IF smp = EmptyText THEN [text |-> EmptyText, err |-> NoError]
    ELSE IF TextHasNul(smp)
    THEN [text |-> EmptyText,
          err |-> Error("does not look like a text file (NUL byte found)", <<path>>)]
    ELSE IF ~TextValid(smp)
    THEN [text |-> EmptyText, err |-> Error("is not valid UTF-8 text", <<path>>)]
    ELSE [text |-> smp, err |-> NoError]

-----------------------------------------------------------------------------
(* The model server's answer and client.GenerateName                       *)

\* A JSON value of a response body, by its type
JAbsent == [t |-> "absent"]
JNull == [t |-> "null"]
JNumber == [t |-> "number"]
JString(v) == [t |-> "string", v |-> v]
JMessage(content) == [t |-> "object", content |-> content]

\* A response body: no JSON at all, a JSON value that is no object, or an
\* object with its "message" and "response" members
BodyGarbage == [form |-> "garbage"]
BodyNull == [form |-> "null"]
BodyArray == [form |-> "array"]
BodyObject(message, response) ==
    [form |-> "object", message |-> message, response |-> response]

\* encoding/json decoding a member into a Go string field
DecodeStringField(j) ==
    CASE j.t = "string" -> [ok |-> TRUE, v |-> j.v]
      [] j.t \in {"absent", "null"} -> [ok |-> TRUE, v |-> <<>>]
      [] OTHER -> [ok |-> FALSE, v |-> <<>>]

\* json.Unmarshal(body, &decoded) for decoded of type chatResponse
Unmarshal(body) ==
    LET zero == [ok |-> TRUE, hasMessage |-> FALSE, content |-> <<>>,
                 response |-> <<>>]
        bad == [zero EXCEPT !.ok = FALSE]
    IN  CASE body.form = "garbage" -> bad
          [] body.form = "array" -> bad
          [] body.form = "null" -> zero
          [] OTHER ->
             LET resp == DecodeStringField(body.response)
                 m == body.message
                 cont == IF m.t = "object" THEN DecodeStringField(m.content)
                         ELSE [ok |-> m.t \in {"absent", "null"}, v |-> <<>>]
             IN  IF ~resp.ok \/ ~cont.ok THEN bad
                 ELSE [ok |-> TRUE, hasMessage |-> m.t = "object",
                       content |-> cont.v, response |-> resp.v]

\* what c.http.Do and io.ReadAll give: a transport failure, or a status with
\* a body that is read whole or fails to be read
TransportFailure == [doOk |-> FALSE, status |-> 0, body |-> BodyGarbage,
                     readOk |-> FALSE]
Response(status, body, readOk) ==
    [doOk |-> TRUE, status |-> status, body |-> body, readOk |-> readOk]

Named(name) == [name |-> name, err |-> NoError]
Failed(e) == [name |-> <<>>, err |-> e]

\* GenerateName trusting any status whose body holds a name
GenerateName_ParseFirst(rt) ==
    IF ~rt.doOk THEN Failed(Error("request model", <<>>))
    ELSE IF ~rt.readOk THEN Failed(Error("read response", <<>>))
    ELSE LET decoded == Unmarshal(rt.body)
         IN  IF decoded.ok /\ decoded.hasMessage /\ decoded.content # <<>>
             THEN Named(decoded.content)
             ELSE IF rt.status < 200 \/ rt.status >= 300
             THEN Failed(Error("model request failed", <<rt.status, rt.body>>))
             ELSE IF ~decoded.ok THEN Failed(Error("parse response", <<>>))
             ELSE IF decoded.response # <<>> THEN Named(decoded.response)
             ELSE Failed(Error("empty response from model", <<>>))

\* GenerateName returning the message content without looking at it
GenerateName_AnyContent(rt) ==
    IF ~rt.doOk THEN Failed(Error("request model", <<>>))
    ELSE IF ~rt.readOk THEN Failed(Error("read response", <<>>))
    ELSE IF rt.status < 200 \/ rt.status >= 300
    THEN Failed(Error("model request failed", <<rt.status, rt.body>>))
    ELSE LET decoded == Unmarshal(rt.body)
         IN  IF ~decoded.ok THEN Failed(Error("parse response", <<>>))
             ELSE IF decoded.hasMessage THEN Named(decoded.content)
             ELSE IF decoded.response # <<>> THEN Named(decoded.response)
             ELSE Failed(Error("empty response from model", <<>>))

\* client.GenerateName, from the round trip on
GenerateName(rt) ==
    IF ~rt.doOk THEN Failed(Error("request model", <<>>))
    ELSE IF ~rt.readOk THEN Failed(Error("read response", <<>>))
    ELSE IF rt.status < 200 \/ rt.status >= 300
    THEN Failed(Error("model request failed", <<rt.status, rt.body>>))
    ELSE LET decoded == Unmarshal(rt.body)
         IN  IF ~decoded.ok THEN Failed(Error("parse response", <<>>))
             ELSE IF decoded.hasMessage /\ decoded.content # <<>>
             THEN Named(decoded.content)
             ELSE IF decoded.response # <<>> THEN Named(decoded.response)
             ELSE Failed(Error("empty response from model", <<>>))

-----------------------------------------------------------------------------
(* naduke.RenameFile                                                       *)

\* os.Rename(src, dst) on a POSIX system: it may fail and change nothing; when
\* it succeeds the file is at dst, in place of whatever file was there
OsRename(fsys, src, dst) ==
    LET from == Abs(src)
        to == Abs(dst)
        moved == [q \in (DOMAIN fsys \ {from}) \cup {to} |->
                     IF q = to THEN fsys[from] ELSE fsys[q]]
        possible == /\ from \in DOMAIN fsys
                    /\ Dir(to) \in DOMAIN fsys /\ fsys[Dir(to)].kind = "dir"
                    /\ to \in DOMAIN fsys => fsys[to].kind = fsys[from].kind
    IN  {[ok |-> FALSE, fs |-> fsys]}
        \cup (IF possible THEN {[ok |-> TRUE, fs |-> moved]} ELSE {})

\* the "old -> new" line of fmt.Printf
Mapping(path, destination) == [from |-> path, to |-> destination]

\* dir, ext and destination of RenameFile, without the extension
Destination_NameOnly(path, name) == Join(Dir(path), name)

\* dir, ext and destination of RenameFile
Destination(path, name) == Join(Dir(path), name \o Ext(path))

\* the destination main reports: the same directory, no prefix
DestinationPath(path, name) == Join(Dir(path), name \o Ext(path))

Renamed(fsys, path, destination) ==
    {[fs |-> r.fs,
      err |-> IF r.ok THEN NoError ELSE Error("rename", <<path, destination>>),
      printed |-> IF r.ok THEN <<Mapping(path, destination)>> ELSE <<>>,
      moved |-> r.ok] : r \in OsRename(fsys, path, destination)}

\* RenameFile without its os.Stat of the destination
RenameFile_NoStat(fsys, path, name) ==
    LET destination == Destination(path, name)
    IN  IF Abs(path) = Abs(destination)
        THEN {[fs |-> fsys, err |-> NoError,
               printed |-> <<Mapping(path, destination)>>, moved |-> FALSE]}
        ELSE Renamed(fsys, path, destination)

\* RenameFile with the test of os.Stat's error inverted
RenameFile_InvertedStat(fsys, path, name) ==
    LET destination == Destination(path, name)
    IN  IF Abs(path) = Abs(destination)
        THEN {[fs |-> fsys, err |-> NoError,
               printed |-> <<Mapping(path, destination)>>, moved |-> FALSE]}
        ELSE IF ~StatOk(fsys, destination)
        THEN {[fs |-> fsys,
               err |-> Error("destination already exists", <<destination>>),
               printed |-> <<>>, moved |-> FALSE]}
        ELSE Renamed(fsys, path, destination)

\* RenameFile without its comparison of the two absolute paths
RenameFile_NoSamePath(fsys, path, name) ==
    LET destination == Destination(path, name)
    IN  IF StatOk(fsys, destination)
        THEN {[fs |-> fsys,
               err |-> Error("destination already exists", <<destination>>),
               printed |-> <<>>, moved |-> FALSE]}
        ELSE Renamed(fsys, path, destination)

\* RenameFile(path, newName): every outcome it can have on filesystem fsys
RenameFile(fsys, path, name) ==
    LET destination == Destination(path, name)
    IN  IF Abs(path) = Abs(destination)
        THEN {[fs |-> fsys, err |-> NoError,
               printed |-> <<Mapping(path, destination)>>, moved |-> FALSE]}
        ELSE IF StatOk(fsys, destination)
        THEN {[fs |-> fsys,
               err |-> Error("destination already exists", <<destination>>),
               printed |-> <<>>, moved |-> FALSE]}
        ELSE Renamed(fsys, path, destination)

-----------------------------------------------------------------------------
(* State outside a run of main, and outside a library call                 *)

NoCall == [fn |-> "none"]

MainIdle ==
    /\ files = <<>> /\ dryRun = FALSE
    /\ fs = <<>> /\ fs0 = <<>> /\ where = <<>>
    /\ idx = 0 /\ pc = "idle"
    /\ sample = EmptyText /\ text = EmptyText
    /\ rawName = NoString /\ newName = NoString
    /\ stdout = <<>> /\ err = NoError /\ trace = <<>>

\* all byte strings over alphabet of length at most n
SeqsUpTo(alphabet, n) == UNION {[1..k -> alphabet] : k \in 0..n}

-----------------------------------------------------------------------------
(* SanitizeName applied to raw model output                                *)

\* a letter, an upper-case letter, '_', ' ', '\n', '-', the bytes of U+00A0
\* (a space) and of U+00E9, and a byte no UTF-8 text holds
SanitizeAlphabet == {97, 90, 95, 32, 10, 45, 194, 160, 195, 169, 255}

\* how many letters precede the tail of a long input
PadLens == (MaxNameLen - 2)..MaxNameLen

\* the examples of TestSanitizeName
TitleRaw == B("Title With Spaces\nand more")
TitleName == B("title_with_spaces")
HelloRaw == B("Hello-World!")
HelloName == B("hello_world")
LongRaw == Repeat(97, 40)
LongName == Repeat(97, 30)
InvalidRaw == B("__!__")
UnderscoresRaw == Repeat(95, 29) \o B("ab")

SanitizeExamples ==
    { TitleRaw, HelloRaw, LongRaw, InvalidRaw, UnderscoresRaw,
      B("  \n name"),
      B("Report 2024.pdf\r\n"),
      B("../../etc/passwd"),
      <<226, 132, 170>> \o B("elvin"),             \* U+212A KELVIN SIGN
      B("caf") \o <<195, 137>>,                    \* U+00C9
      Repeat(97, 29) \o <<195, 169>> \o B("b"),
      Repeat(97, 29) \o <<255>> \o B("b") }

SanitizeInputs ==
    SeqsUpTo(SanitizeAlphabet, MaxLen)
    \cup { head \o Repeat(97, n) \o tail :
             head \in SeqsUpTo(SanitizeAlphabet, 1),
             n \in PadLens,
             tail \in SeqsUpTo(SanitizeAlphabet, MaxLen - 1) }
    \cup SanitizeExamples

InitSanitize ==
    /\ call \in {[fn |-> "SanitizeName", in |-> raw, out |-> NoString,
                  again |-> NoString, step |-> 0] : raw \in SanitizeInputs}
    /\ MainIdle

\* newName := naduke.SanitizeName(rawName)
CallSanitizeName ==
    /\ call.fn = "SanitizeName" /\ call.step = 0
    /\ call' = [call EXCEPT !.out = SanitizeName(call.in), !.step = 1]
    /\ UNCHANGED mainVars

\* the result fed to SanitizeName once more
CallSanitizeAgain ==
    /\ call.fn = "SanitizeName" /\ call.step = 1
    /\ call' = [call EXCEPT !.again = SanitizeName(call.out), !.step = 2]
    /\ UNCHANGED mainVars

NextSanitize == CallSanitizeName \/ CallSanitizeAgain

SpecSanitize == InitSanitize /\ [][NextSanitize]_vars

Sanitized == call.fn = "SanitizeName" /\ call.step >= 1

\* C1: for every input string, SanitizeName's result is non-empty, holds only
\* bytes of [a-z0-9_], is at most 30 bytes long and neither starts nor ends
\* with an underscore.
C1_SanitizedNameIsSafe ==
    Sanitized =>
        /\ Len(call.out) >= 1
        /\ Len(call.out) <= 30
        /\ \A i \in 1..Len(call.out) : call.out[i] \in NameBytes
        /\ call.out[1] # 95
        /\ call.out[Len(call.out)] # 95

\* C1 witness: an input over 30 bytes long that is not valid UTF-8 has been
\* sanitized, and the result is shorter than 30 bytes because an underscore
\* was trimmed after the truncation.
C1_Witness ==
    /\ Sanitized
    /\ ~ValidString(call.in)
    /\ Len(call.in) > 30
    /\ Len(call.out) = 29

\* C9: SanitizeName is idempotent: sanitizing a sanitized name returns it
\* unchanged, the fallback "file" included.
C9_SanitizeIdempotent ==
    (call.fn = "SanitizeName" /\ call.step = 2) => call.again = call.out

\* C9 witness: an input that sanitizes to the fallback has been sanitized
\* twice.
C9_Witness ==
    /\ call.fn = "SanitizeName" /\ call.step = 2
    /\ call.in # FallbackName
    /\ call.out = FallbackName
    /\ call.again = FallbackName

(* The algorithm as the specification words it, on characters: the input   *)
(* is a sequence of characters (an undecodable byte is one character,      *)
(* U+FFFD), and each stage is stated by what it keeps.                     *)

FileName == B("file")

SetMin(S) == CHOOSE x \in S : \A y \in S : x <= y
SetMax(S) == CHOOSE x \in S : \A y \in S : y <= x

\* the characters of cs from the first to the last that is not in drop
StripBoth(cs, Drop(_)) ==
    LET keep == {i \in 1..Len(cs) : ~Drop(cs[i])}
    IN  IF keep = {} THEN <<>> ELSE SubSeq(cs, SetMin(keep), SetMax(keep))

IsUnderscore(c) == c = 95

FirstLine(cs) ==
    LET nls == {i \in 1..Len(cs) : cs[i] = 10}
    IN  IF nls = {} THEN cs ELSE SubSeq(cs, 1, SetMin(nls) - 1)

SanitizeByStages(raw) ==
    LET chars == Runes(raw)
        line == FirstLine(StripBoth(chars, IsSpace))
        lower == [i \in 1..Len(line) |-> UnicodeToLower(line[i])]
        replaced == [i \in 1..Len(lower) |->
                        IF lower[i] \in NameBytes THEN lower[i] ELSE 95]
        cut == SubSeq(replaced, 1, Min(Len(replaced), 30))
        name == StripBoth(cut, IsUnderscore)
    IN  IF Len(name) = 0 THEN FileName ELSE name

\* C10: SanitizeName returns what the stages give in this order: trim white
\* space, cut at the first newline, lowercase, replace every character
\* outside [a-z0-9_] by '_', truncate to 30 characters, trim underscores,
\* "file" if nothing is left; the four documented examples come out as
\* documented.
C10_SanitizeFollowsStages ==
    Sanitized =>
        /\ call.out = SanitizeByStages(call.in)
        /\ call.in = TitleRaw => call.out = TitleName
        /\ call.in = HelloRaw => call.out = HelloName
        /\ call.in = LongRaw => call.out = LongName
        /\ call.in = InvalidRaw => call.out = FileName

\* C10 witness: 29 underscores followed by "ab" have been sanitized to "a":
\* the truncation to 30 came before the underscore trim.
C10_Witness ==
    /\ Sanitized
    /\ call.in = UnderscoresRaw
    /\ call.out = <<97>>

-----------------------------------------------------------------------------
(* ValidateSuggestion: the strict check of a suggested name.  The function *)
(* is called by TestValidateSuggestion and is not among the sources; it is *)
(* written here from section 4.5 of the specification.                     *)

\* the length above which a suggestion is refused
MaxSuggestionLen == 30

\* the characters a suggestion may hold: a-z, 0-9 and '_'
SuggestionRunes == (97..122) \cup (48..57) \cup {95}

\* the validator without its length rule
ValidateSuggestion_NoLengthRule(name) ==
    LET rs == Runes(name)
    IN  IF Len(rs) = 0
        THEN [name |-> NoString, err |-> Error("suggestion is empty", <<>>)]
        ELSE IF \E i \in 1..Len(rs) : rs[i] \notin SuggestionRunes
        THEN [name |-> NoString,
              err |-> Error("suggestion has invalid characters", <<name>>)]
        ELSE [name |-> name, err |-> NoError]

\* ValidateSuggestion(name) returns (name, nil), or ("", error) naming the
\* rule the name breaks
ValidateSuggestion(name) ==
    LET rs == Runes(name)
    IN  IF Len(rs) = 0
        THEN [name |-> NoString, err |-> Error("suggestion is empty", <<>>)]
        ELSE IF Len(rs) > MaxSuggestionLen
        THEN [name |-> NoString,
              err |-> Error("suggestion is too long", <<name>>)]
        ELSE IF \E i \in 1..Len(rs) : rs[i] \notin SuggestionRunes
        THEN [name |-> NoString,
              err |-> Error("suggestion has invalid characters", <<name>>)]
        ELSE [name |-> name, err |-> NoError]

\* a letter, a digit, '_', an upper-case letter, ' ', '-', '.', and the two
\* bytes of U+00E9
SuggestionAlphabet == {97, 48, 95, 90, 32, 45, 46, 195, 169}

\* the examples of TestValidateSuggestion
ValidExamples == {B("good_name"), B("abc123"), B("under_score")}
InvalidExamples ==
    { <<>>, B("has space"), B("UpperCase"),
      B("toolongtoolongtoolongtoolongtool"), B("with-hyphen"), B("with.dot") }

SuggestionInputs ==
    SeqsUpTo(SuggestionAlphabet, MaxLen)
    \cup { Repeat(122, n) \o tail :
             n \in (MaxSuggestionLen - MaxLen)..(MaxSuggestionLen + 1),
             tail \in SeqsUpTo(SuggestionAlphabet, MaxLen - 1) }
    \cup ValidExamples \cup InvalidExamples

InitValidate ==
    /\ call \in {[fn |-> "ValidateSuggestion", in |-> s, out |-> NoString,
                  err |-> NoError, step |-> 0] : s \in SuggestionInputs}
    /\ MainIdle

\* name, err := ValidateSuggestion(v)
CallValidateSuggestion ==
    /\ call.fn = "ValidateSuggestion" /\ call.step = 0
    /\ LET r == ValidateSuggestion(call.in)
       IN  call' = [call EXCEPT !.out = r.name, !.err = r.err, !.step = 1]
    /\ UNCHANGED mainVars

NextValidate == CallValidateSuggestion

SpecValidate == InitValidate /\ [][NextValidate]_vars

Validated == call.fn = "ValidateSuggestion" /\ call.step = 1

\* the string is non-empty, at most 30 bytes long, and each of its bytes is
\* one of a-z, 0-9, '_' (such a string has one byte per character)
WellFormedSuggestion(s) ==
    /\ Len(s) >= 1
    /\ Len(s) <= 30
    /\ \A i \in 1..Len(s) :
          \/ s[i] >= 97 /\ s[i] <= 122
          \/ s[i] >= 48 /\ s[i] <= 57
          \/ s[i] = 95

\* C11: ValidateSuggestion returns its argument unchanged and no error if and
\* only if the argument is non-empty, at most 30 characters long and made of
\* characters of [a-z0-9_] only; every other string gets an error.  The valid
\* and invalid examples of TestValidateSuggestion come out as the test says.
C11_ValidatorAcceptsExactlyWellFormed ==
    Validated =>
        /\ WellFormedSuggestion(call.in) =>
              call.err = NoError /\ call.out = call.in
        /\ ~WellFormedSuggestion(call.in) => call.err # NoError
        /\ call.in \in ValidExamples => call.err = NoError
        /\ call.in \in InvalidExamples => call.err # NoError

\* C11 witness: 31 letters have been refused (30 are the most accepted).
C11_Witness ==
    /\ Validated
    /\ call.in = Repeat(122, 31)
    /\ call.err # NoError
    /\ ValidateSuggestion(Repeat(122, 30)).err = NoError

-----------------------------------------------------------------------------
(* The destination of a rename, for source paths and raw model outputs     *)

ExamplePath == B("/tmp/example/note.txt")
ExampleName == B("suggested_name")
ExampleDestination == B("/tmp/example/suggested_name.txt")

DestPaths ==
    { ExamplePath, B("note.txt"), B("./sub/../b.tar.gz"), B("/w/.rc"),
      B("dir.d/noext"), B("/w/a."), B("../up/x.md"), B("/x.txt") }

\* a letter, an upper-case letter, '.', '/' and ' '
DestAlphabet == {97, 90, 46, 47, 32}

DestRaws ==
    SeqsUpTo(DestAlphabet, MaxLen)
    \cup { ExampleName, B("../../etc/passwd"), B("notes.md"), B("a/b.c\n") }

InitDest ==
    /\ call \in {[fn |-> "Destination", path |-> path, in |-> raw,
                  name |-> NoString, out |-> NoString, step |-> 0] :
                    path \in DestPaths, raw \in DestRaws}
    /\ MainIdle

\* newName := SanitizeName(rawName), then the destination RenameFile computes
CallDestination ==
    /\ call.fn = "Destination" /\ call.step = 0
    /\ LET name == SanitizeName(call.in)
       IN  call' = [call EXCEPT !.name = name,
                                !.out = Destination(call.path, name),
                                !.step = 1]
    /\ UNCHANGED mainVars

NextDest == CallDestination

SpecDest == InitDest /\ [][NextDest]_vars

\* C4: the destination is the source's directory joined with the sanitized
\* name plus the source's extension: it has the directory and the extension of
\* the source, whatever the model returned; /tmp/example/note.txt with
\* suggested_name gives /tmp/example/suggested_name.txt.
C4_DestinationKeepsDirAndExt ==
    (call.fn = "Destination" /\ call.step = 1) =>
        /\ Dir(call.out) = Dir(call.path)
        /\ Ext(call.out) = Ext(call.path)
        /\ call.out = Clean(Dir(call.path) \o <<Separator>> \o call.name
                            \o Ext(call.path))
        /\ (call.path = ExamplePath /\ call.name = ExampleName)
              => call.out = ExampleDestination

\* C4 witness: a model output that spells a path into another directory, with
\* an extension of its own, has been turned into a destination beside a
\* source that has no extension.
C4_Witness ==
    /\ call.fn = "Destination" /\ call.step = 1
    /\ call.in = B("../../etc/passwd")
    /\ call.path = B("dir.d/noext")
    /\ call.out = B("dir.d/etc_passwd")

-----------------------------------------------------------------------------
(* ReadSample applied to files around the size of the read buffer          *)

\* a letter, the bytes of U+00E9 (2 bytes) and U+3042 (3 bytes), and a byte
\* no UTF-8 text holds
ContentAlphabet == {97, 195, 169, 227, 129, 130, 255}

\* lengths of the run of letters: short files, and files that end around
\* the end of the buffer
ContentPads == {0, 1} \cup ((readBytes - MaxLen)..(readBytes + 1))

ReadContents ==
    {Txt(pad, tail) : pad \in ContentPads,
                      tail \in SeqsUpTo(ContentAlphabet, MaxLen)}

ReadPath == B("/w/a.txt")

InitRead ==
    /\ call \in {[fn |-> "ReadSample", in |-> content, out |-> EmptyText,
                  err |-> NoError, step |-> 0] : content \in ReadContents}
    /\ MainIdle

\* sample, err := naduke.ReadSample(path)
CallReadSample ==
    /\ call.fn = "ReadSample" /\ call.step = 0
    /\ LET disk == (Abs(ReadPath) :> File(call.in))
           r == ReadSample(disk, ReadPath)
       IN  call' = [call EXCEPT !.out = r.sample, !.err = r.err, !.step = 1]
    /\ UNCHANGED mainVars

NextRead == CallReadSample

SpecRead == InitRead /\ [][NextRead]_vars

\* C5: ReadSample returns a prefix of the file that does not end inside a
\* multi-byte code point, so that a file that is valid UTF-8 gives a sample
\* that is valid UTF-8.
C5_SampleEndsOnRuneBoundary ==
    (call.fn = "ReadSample" /\ call.step = 1 /\ call.err = NoError) =>
        /\ TextIsPrefix(call.out, call.in)
        /\ TextValid(call.in) => (~TextEndsCut(call.out) /\ TextValid(call.out))

-----------------------------------------------------------------------------
(* GenerateName applied to the answers of the model server                 *)

Statuses == {199, 200, 204, 299, 300, 400, 500}

ContentStrings == {<<>>, B("N \nx"), B("c")}
ResponseStrings == {<<>>, B("legacy")}

JContents == {JAbsent, JNull, JNumber} \cup {JString(v) : v \in ContentStrings}
JMessages == {JAbsent, JNull, JNumber} \cup {JMessage(c) : c \in JContents}
JResponses == {JAbsent, JNull, JNumber} \cup {JString(v) : v \in ResponseStrings}

Bodies ==
    {BodyGarbage, BodyNull, BodyArray}
    \cup {BodyObject(m, r) : m \in JMessages, r \in JResponses}

RoundTrips ==
    {TransportFailure}
    \cup {Response(st, b, ok) : st \in Statuses, b \in Bodies, ok \in BOOLEAN}

InitClient ==
    /\ call \in {[fn |-> "GenerateName", in |-> rt, out |-> NoString,
                  err |-> NoError, step |-> 0] : rt \in RoundTrips}
    /\ MainIdle

\* rawName, err := client.GenerateName(...)
CallGenerateName ==
    /\ call.fn = "GenerateName" /\ call.step = 0
    /\ LET r == GenerateName(call.in)
       IN  call' = [call EXCEPT !.out = r.name, !.err = r.err, !.step = 1]
    /\ UNCHANGED mainVars

NextClient == CallGenerateName

SpecClient == InitClient /\ [][NextClient]_vars

Answered ==
    /\ call.fn = "GenerateName" /\ call.step = 1
    /\ call.in.doOk /\ call.in.readOk

\* the body is a chat response whose message content is a non-empty string
HasContent(body) ==
    /\ body.form = "object"
    /\ body.message.t = "object"
    /\ body.message.content.t = "string"
    /\ body.message.content.v # <<>>

\* the body's "response" member is a non-empty string
HasResponse(body) ==
    /\ body.form = "object"
    /\ body.response.t = "string"
    /\ body.response.v # <<>>

\* C7: for every status outside 200..299 and every body, GenerateName returns
\* an error and no name, and the error holds the status code and the body as
\* received, also when the body is a well-formed chat response.
C7_Non2xxIsAnError ==
    (Answered /\ call.in.status \notin 200..299) =>
        /\ call.out = <<>>
        /\ call.err.kind = "model request failed"
        /\ call.err.args = <<call.in.status, call.in.body>>

\* C7 witness: a 500 answer whose body is a chat response with a name in it
\* has been turned into an error.
C7_Witness ==
    /\ Answered
    /\ call.in.status = 500
    /\ HasContent(call.in.body)
    /\ call.err.kind = "model request failed"

\* C8: on a 2xx answer with a parsable body, GenerateName returns the message
\* content when it is non-empty, else the "response" member when it is
\* non-empty, else the empty-response error; and it never returns an empty
\* name without an error.
C8_ContentThenResponseThenError ==
    /\ (call.fn = "GenerateName" /\ call.step = 1)
          => ~(call.out = <<>> /\ call.err = NoError)
    /\ (Answered /\ call.in.status \in 200..299 /\ Unmarshal(call.in.body).ok) =>
          LET body == call.in.body
          IN  IF HasContent(body)
              THEN call.out = body.message.content.v /\ call.err = NoError
              ELSE IF HasResponse(body)
              THEN call.out = body.response.v /\ call.err = NoError
              ELSE call.out = <<>> /\ call.err.kind = "empty response from model"

\* C8 witness: a 2xx answer holding a message with empty content and a
\* non-empty "response" has given the "response".
C8_Witness ==
    /\ Answered
    /\ call.in.status = 204
    /\ call.in.body = BodyObject(JMessage(JString(<<>>)), JString(B("legacy")))
    /\ call.out = B("legacy")
    /\ call.err = NoError

-----------------------------------------------------------------------------
(* main: one run of the tool over a batch of files                         *)

RootDir == B("/")
OtherDir == B("/t")

\* the files a run may find, by absolute path
CandidateFiles == {B("/w/a.txt"), B("/w/c.txt"), B("/t/a.txt")}

\* what a candidate file may hold: a text, or nothing, or a NUL byte, or a byte
\* no UTF-8 text holds, or both
ContentsAt(p) ==
    CASE p = B("/w/a.txt") -> {Txt(0, B("hi")), EmptyText}
      [] p = B("/w/c.txt") -> {Txt(0, B("hi")), Txt(0, <<104, 0>>),
                               Txt(0, <<255, 0>>)}
      [] OTHER -> {Txt(0, B("yo")), Txt(1, <<255>>)}

\* the FILE arguments: a relative and an absolute path of the working
\* directory, a path of another directory, a blank argument, a directory
ArgPaths == {B("a.txt"), B("/w/c.txt"), B("/t/a.txt"), B(" "), OtherDir}

Directories == (RootDir :> Directory) @@ (Cwd :> Directory) @@ (OtherDir :> Directory)

InitialFilesystems ==
    {Directories @@ [p \in present |-> File(content[p])] :
        present \in SUBSET CandidateFiles,
        content \in {c \in [CandidateFiles -> UNION {ContentsAt(p) : p \in CandidateFiles}] :
                        \A p \in CandidateFiles : c[p] \in ContentsAt(p)}}

Batches == UNION {[1..n -> ArgPaths] : n \in 1..MaxFiles}

\* the answers of the model server in a run: no answer, an error status, a
\* 200 without a name, and 200s with a name
MainRawNames == {B("N \nx"), B("c"), B("a")}

MainRoundTrips ==
    { TransportFailure,
      Response(500, BodyObject(JAbsent, JAbsent), TRUE),
      Response(200, BodyObject(JMessage(JString(<<>>)), JAbsent), TRUE) }
    \cup {Response(200, BodyObject(JMessage(JString(v)), JAbsent), TRUE) :
            v \in MainRawNames}

RegularFiles(fsys) == {p \in DOMAIN fsys : fsys[p].kind = "file"}

\* where a file of the initial filesystem is when it is nowhere any more
Lost == <<>>

Event(op, to, free) == [op |-> op, i |-> idx, to |-> to, free |-> free]

Init ==
    /\ call = NoCall
    /\ fs0 \in InitialFilesystems
    /\ fs = fs0
    /\ where = [p \in RegularFiles(fs0) |-> p]
    /\ files \in Batches
    /\ dryRun \in BOOLEAN
    /\ idx = 1 /\ pc = "check"
    /\ sample = EmptyText /\ text = EmptyText
    /\ rawName = NoString /\ newName = NoString
    /\ stdout = <<>> /\ err = NoError /\ trace = <<>>

\* os.Exit(1) after the error is printed
Exit1(e) == err' = e /\ pc' = "exit1"

\* the loop body's locals go out of scope; the loop moves to the next file
NextIteration ==
    /\ idx' = idx + 1 /\ pc' = "check"
    /\ sample' = EmptyText /\ text' = EmptyText
    /\ rawName' = NoString /\ newName' = NoString

\* for _, path := range files: the range is exhausted, main returns
Finish ==
    /\ pc = "check" /\ idx > Len(files)
    /\ pc' = "exit0"
    /\ UNCHANGED <<call, files, dryRun, fs, fs0, where, idx, sample, text,
                   rawName, newName, stdout, err, trace>>

\* if strings.TrimSpace(path) == ""
CheckPath ==
    /\ pc = "check" /\ idx <= Len(files)
    /\ IF TrimSpace(files[idx]) = <<>>
       THEN Exit1(Error("empty file path", <<>>))
       ELSE pc' = "read" /\ err' = err
    /\ UNCHANGED <<call, files, dryRun, fs, fs0, where, idx, sample, text,
                   rawName, newName, stdout, trace>>

\* sample, err := naduke.ReadSample(path)
ReadFile ==
    /\ pc = "read"
    /\ LET r == ReadSample(fs, files[idx])
       IN  /\ trace' = Append(trace, Event("read", files[idx], TRUE))
           /\ IF r.err # NoError
              THEN Exit1(r.err) /\ sample' = sample
              ELSE sample' = r.sample /\ pc' = "guard" /\ err' = err
    /\ UNCHANGED <<call, files, dryRun, fs, fs0, where, idx, text, rawName,
                   newName, stdout>>

\* text, err := naduke.EnsureTextSample(sample, path)
Guard ==
    /\ pc = "guard"
    /\ LET r == EnsureTextSample(sample, files[idx])
       IN  IF r.err # NoError
           THEN Exit1(r.err) /\ text' = text
           ELSE text' = r.text /\ pc' = "request" /\ err' = err
    /\ UNCHANGED <<call, files, dryRun, fs, fs0, where, idx, sample, rawName,
                   newName, stdout, trace>>

\* rawName, err := client.GenerateName(..., text)
Request ==
    /\ pc = "request"
    /\ \E rt \in MainRoundTrips :
         LET r == GenerateName(rt)
         IN  IF r.err # NoError
             THEN Exit1(r.err) /\ rawName' = rawName
             ELSE rawName' = r.name /\ pc' = "sanitize" /\ err' = err
    /\ trace' = Append(trace, Event("request", files[idx], TRUE))
    /\ UNCHANGED <<call, files, dryRun, fs, fs0, where, idx, sample, text,
                   newName, stdout>>

\* newName := naduke.SanitizeName(rawName)
Sanitize ==
    /\ pc = "sanitize"
    /\ newName' = SanitizeName(rawName)
    /\ pc' = "name"
    /\ UNCHANGED <<call, files, dryRun, fs, fs0, where, idx, sample, text,
                   rawName, stdout, err, trace>>

\* the file of the initial filesystem that is at path from is at path to
\* now, and the one that was at to is nowhere
Track(from, to) ==
    [p \in DOMAIN where |->
        IF where[p] = from THEN to ELSE IF where[p] = to THEN Lost ELSE where[p]]

\* if opts.DryRun without its continue: the mapping is printed and the file
\* is renamed all the same
DryRunReport_FallsThrough ==
    /\ pc = "name" /\ dryRun
    /\ \E o \in RenameFile(fs, files[idx], newName) :
         LET destination == DestinationPath(files[idx], newName)
         IN  /\ fs' = o.fs
             /\ stdout' = Append(stdout, Mapping(files[idx], destination))
                              \o o.printed
             /\ trace' = Append(trace, Event("report", destination,
                                             ~StatOk(fs, destination)))
             /\ where' = IF o.moved
                         THEN Track(Abs(files[idx]), Abs(destination))
                         ELSE where
    /\ NextIteration
    /\ UNCHANGED <<call, files, dryRun, fs0, err>>

\* destination := naduke.DestinationPath(path, newName); if opts.DryRun: the
\* mapping is printed and the loop continues
DryRunReport ==
    /\ pc = "name" /\ dryRun
    /\ LET destination == DestinationPath(files[idx], newName)
       IN  /\ stdout' = Append(stdout, Mapping(files[idx], destination))
           /\ trace' = Append(trace, Event("report", destination,
                                           ~StatOk(fs, destination)))
    /\ NextIteration
    /\ UNCHANGED <<call, files, dryRun, fs, fs0, where, err>>

\* if err := naduke.RenameFile(path, newName); err != nil { ...; os.Exit(1) }
\* with the next file read even after a failed rename
Rename_ContinueOnError ==
    /\ pc = "name" /\ ~dryRun
    /\ \E o \in RenameFile(fs, files[idx], newName) :
         LET destination == Destination(files[idx], newName)
         IN  /\ fs' = o.fs
             /\ stdout' = stdout \o o.printed
             /\ IF o.moved
                THEN /\ trace' = Append(trace, Event("move", destination,
                                                     ~StatOk(fs, destination)))
                     /\ where' = Track(Abs(files[idx]), Abs(destination))
                ELSE UNCHANGED <<trace, where>>
             /\ err' = o.err
             /\ NextIteration
    /\ UNCHANGED <<call, files, dryRun, fs0>>

\* if err := naduke.RenameFile(path, newName); err != nil { ...; os.Exit(1) }
Rename ==
    /\ pc = "name" /\ ~dryRun
    /\ \E o \in RenameFile(fs, files[idx], newName) :
         LET destination == Destination(files[idx], newName)
         IN  /\ fs' = o.fs
             /\ stdout' = stdout \o o.printed
             /\ IF o.moved
                THEN /\ trace' = Append(trace, Event("move", destination,
                                                     ~StatOk(fs, destination)))
                     /\ where' = Track(Abs(files[idx]), Abs(destination))
                ELSE UNCHANGED <<trace, where>>
             /\ IF o.err # NoError
                THEN /\ Exit1(o.err)
                     /\ UNCHANGED <<idx, sample, text, rawName, newName>>
                ELSE NextIteration /\ err' = err
    /\ UNCHANGED <<call, files, dryRun, fs0>>

Next ==
    \/ Finish
    \/ CheckPath
    \/ ReadFile
    \/ Guard
    \/ Request
    \/ Sanitize
    \/ DryRunReport
    \/ Rename

Spec == Init /\ [][Next]_vars

-----------------------------------------------------------------------------
(* Properties of a run                                                     *)

\* RenameFile is about to be called, its destination is not its source, and
\* something is at the destination
RenameConflict ==
    /\ pc = "name" /\ ~dryRun
    /\ Abs(files[idx]) # Abs(Destination(files[idx], newName))
    /\ Abs(Destination(files[idx], newName)) \in DOMAIN fs

\* C2: when RenameFile is called and a file already exists at the computed
\* destination, which is not the source itself, it returns the
\* destination-exists error and the filesystem is as it was: the source is at
\* its path with its content and so is the file at the destination.
C2_ConflictLeavesFilesUntouched ==
    [][RenameConflict =>
          /\ err'.kind = "destination already exists"
          /\ err'.args = <<Destination(files[idx], newName)>>
          /\ pc' = "exit1"
          /\ fs'[Abs(files[idx])] = fs[Abs(files[idx])]
          /\ fs'[Abs(Destination(files[idx], newName))]
                = fs[Abs(Destination(files[idx], newName))]
          /\ fs' = fs
          /\ stdout' = stdout]_vars

\* C2 witness: the first file's rename was refused because its destination
\* exists, and both files are where they were.
C2_Witness ==
    /\ pc = "exit1" /\ idx = 1
    /\ err.kind = "destination already exists"
    /\ files[1] = B("a.txt")
    /\ err.args = <<B("c.txt")>>
    /\ B("/w/a.txt") \in DOMAIN fs /\ B("/w/c.txt") \in DOMAIN fs
    /\ fs = fs0

Moves == {k \in 1..Len(trace) : trace[k].op = "move"}

\* C3: no file is overwritten or lost: every file of the initial filesystem
\* is still there with its content, at its path or at the destination of a
\* rename, no file appeared, and every rename was made to a path where
\* nothing was.
C3_NoFileLost ==
    /\ \A p \in RegularFiles(fs0) :
          /\ where[p] # Lost
          /\ where[p] \in RegularFiles(fs)
          /\ fs[where[p]] = fs0[p]
          /\ where[p] = p \/ \E k \in Moves : Abs(trace[k].to) = where[p]
    /\ Cardinality(RegularFiles(fs)) = Cardinality(RegularFiles(fs0))
    /\ \A k \in Moves : trace[k].free

\* C3 witness: the first file was renamed, the second file was given the same
\* name, and its rename was refused.
C3_Witness ==
    /\ pc = "exit1" /\ idx = 2
    /\ err.kind = "destination already exists"
    /\ \E k \in Moves : trace[k].i = 1 /\ Abs(err.args[1]) = Abs(trace[k].to)
    /\ Abs(files[1]) # Abs(files[2])

\* the order of the steps on one file
Rank(op) == CASE op = "read" -> 1 [] op = "request" -> 2 [] OTHER -> 3

\* The files are handled in argument order, one after the other, and a run
\* that failed has stopped
InOrder ==
    /\ \A k \in 1..Len(trace) : trace[k].i <= idx /\ trace[k].i <= Len(files)
    /\ \A j, k \in 1..Len(trace) :
          j < k => \/ trace[j].i < trace[k].i
                   \/ trace[j].i = trace[k].i /\ Rank(trace[j].op) < Rank(trace[k].op)
    /\ err # NoError <=> pc = "exit1"

\* C6: the files are processed one after another in argument order; the first
\* failure ends the run: nothing is read, requested or renamed after it, and
\* the renames made before it stay.
C6_FirstFailureEndsRun ==
    /\ []InOrder
    /\ [][/\ pc # "exit1"
          /\ idx' \in {idx, idx + 1}
          /\ pc' = "exit1" =>
                (fs' = fs /\ where' = where /\ stdout' = stdout /\ idx' = idx)]_vars

\* C6 witness: the first of three files was renamed, the second failed, and
\* the run ended there with the first file at its new path.
C6_Witness ==
    /\ pc = "exit1" /\ idx = 2 /\ Len(files) = 3
    /\ \E k \in Moves : trace[k].i = 1 /\ Abs(trace[k].to) \in RegularFiles(fs)
    /\ trace[Len(trace)].i = 2

\* the mappings printed in a dry run
Reports == {k \in 1..Len(trace) : trace[k].op = "report"}

\* the destinations main can compute for a path, over the names the model
\* server may give
DestinationsOf ==
    [path \in ArgPaths |->
        {DestinationPath(path, SanitizeName(v)) : v \in MainRawNames}]

Destinations(path) == DestinationsOf[path]

\* C12: in dry-run mode the filesystem is never changed: no rename is made,
\* whatever the model returns, and every file that got a name has had its
\* destination computed and its "old -> new" mapping printed, in order.
C12_DryRunKeepsFilesystem ==
    dryRun =>
        /\ fs = fs0
        /\ Moves = {}
        /\ \A p \in DOMAIN where : where[p] = p
        /\ pc # "name" => Len(stdout) = Cardinality(Reports)
        /\ pc \in {"check", "exit0"} => Len(stdout) = idx - 1
        /\ \A k \in 1..Len(stdout) :
              /\ stdout[k].from = files[k]
              /\ stdout[k].to \in Destinations(files[k])
              /\ \E j \in Reports :
                    trace[j].i = k /\ trace[j].to = stdout[k].to

\* C12 witness: a dry run over two files has ended; both mappings were
\* printed, the first to a path where a file is, and nothing has moved.
C12_Witness ==
    /\ dryRun /\ pc = "exit0" /\ Len(files) = 2
    /\ Len(stdout) = 2
    /\ Abs(stdout[1].to) \in RegularFiles(fs)
    /\ Abs(stdout[1].to) # Abs(files[1])
    /\ Abs(stdout[2].to) \notin DOMAIN fs
    /\ fs = fs0

\* the bytes of a content
TextBytes(t) == Repeat(97, t.pad) \o t.tail

\* the steps made on the file being processed that reach the model server
\* or the filesystem's names
Acted == {k \in 1..Len(trace) :
            trace[k].i = idx /\ trace[k].op \in {"request", "report", "move"}}

\* C13: a sample with a NUL byte or that is not valid UTF-8 makes
\* EnsureTextSample return an error, the NUL one when both hold, and the file
\* is given up before any request and any rename; any other sample is
\* returned as it is, the empty one included, and is sent to the model.
C13_GuardRejectsBinaryBeforeRequest ==
    [][/\ pc = "request" =>
             /\ text = sample
             /\ trace' = Append(trace, Event("request", files[idx], TRUE))
       /\ pc = "guard" =>
          LET bytes == TextBytes(sample)
              nul == \E i \in 1..Len(bytes) : bytes[i] = 0
              valid == ValidString(bytes)
          IN  /\ Acted = {}
              /\ nul =>
                    /\ err' = Error("does not look like a text file (NUL byte found)",
                                    <<files[idx]>>)
              /\ ~nul /\ ~valid =>
                    /\ err' = Error("is not valid UTF-8 text", <<files[idx]>>)
              /\ nul \/ ~valid =>
                    /\ pc' = "exit1"
                    /\ fs' = fs /\ trace' = trace /\ stdout' = stdout
                    /\ rawName' = NoString
              /\ ~nul /\ valid =>
                    /\ err' = NoError
                    /\ text' = sample
                    /\ pc' = "request"]_vars

\* C13 witness: a file with a byte that is no UTF-8 and a NUL byte was refused
\* for its NUL byte, after an empty file had been sent to the model and
\* renamed.
C13_Witness ==
    /\ pc = "exit1" /\ idx = 2
    /\ sample = Txt(0, <<255, 0>>)
    /\ err.kind = "does not look like a text file (NUL byte found)"
    /\ Acted = {}
    /\ fs0[Abs(files[1])].data = EmptyText
    /\ \E k \in 1..Len(trace) : trace[k].i = 1 /\ trace[k].op = "request"
    /\ \E k \in Moves : trace[k].i = 1

\* the destinations that were printed as the new path of a dry run's
\* mapping or were the target of os.Rename
Targets == {k \in 1..Len(trace) : trace[k].op \in {"report", "move"}}

RenameToItself ==
    /\ pc = "name" /\ ~dryRun
    /\ Abs(files[idx]) = Abs(Destination(files[idx], newName))

\* C15: when the destination and the source are the same absolute path,
\* RenameFile returns no error and prints the "old -> new" mapping, and the
\* filesystem is as it was: no rename is made and no destination-exists error
\* is raised, although a file is at that path.
C15_SamePathIsNoOp ==
    [][RenameToItself =>
          /\ Abs(files[idx]) \in RegularFiles(fs)
          /\ err' = NoError
          /\ pc' = "check" /\ idx' = idx + 1
          /\ stdout' = Append(stdout,
                Mapping(files[idx], Destination(files[idx], newName)))
          /\ fs' = fs
          /\ where' = where
          /\ trace' = trace]_vars

\* C15 witness: a.txt was given the name "a": the mapping a.txt -> a.txt was
\* printed, the run went on, and the file is where it was.
C15_Witness ==
    /\ ~dryRun /\ pc = "exit0" /\ Len(files) = 1
    /\ files[1] = B("a.txt")
    /\ stdout = <<Mapping(B("a.txt"), B("a.txt"))>>
    /\ B("/w/a.txt") \in RegularFiles(fs)
    /\ Moves = {}
    /\ fs = fs0

=============================================================================
